---- MODULE Spec2Model ----
(***************************************************************************)
(* Model of the parallel file copier (copy.py) and of the directory        *)
(* helpers it uses (lib/utils.py: walk_files, count_dir_files,            *)
(* count_dir_files_and_size, check_capture_logs, capture_logs,             *)
(* sorted_dicts_are_equal, trim_dict).                                     *)
(*                                                                         *)
(* The specifications share the variables:                                 *)
(*   SpecWalk    the directory helpers walk_files (a generator),           *)
(*               count_dir_files and count_dir_files_and_size, called on   *)
(*               a directory tree;                                         *)
(*   SpecJobs    concurrent executions of _copy_safe / _copy, one per      *)
(*               descriptor walk_files yields, on a shared destination     *)
(*               tree, in two passes;                                      *)
(*   SpecPool    one pass of those jobs under the pool of cli(), with an   *)
(*               external interrupt;                                       *)
(*   SpecMkdirs  the steps of os.makedirs of concurrent jobs;              *)
(*   Spec        one invocation of the command cli();                      *)
(*   SpecLogs    check_capture_logs and capture_logs as cli() calls them;  *)
(*   SpecSorted  sorted_dicts_are_equal on two dicts;                      *)
(*   SpecTrim    trim_dict on a dict;                                      *)
(*   SpecOverlap one pass of the pool when OUTPUT_DIR is SOURCE_DIR or a   *)
(*               directory inside it.                                      *)
(***************************************************************************)
EXTENDS Integers, Sequences, FiniteSets, TLC

(***************************************************************************)
(* Bounds of the model.                                                    *)
(***************************************************************************)
\* longest file content, in bytes
MaxLen == 2
\* passes over the same source tree
MaxRuns == 2
\* workers that are in os.makedirs at the same time
MaxWorkers == 2
\* longest list held by a dict
MaxList == 2
\* longest string held by a dict
MaxStr == 2
\* log lines the recording console holds at most
MaxLines == 3

(***************************************************************************)
(* File names are sequences of characters, so that str.endswith is a real  *)
(* suffix test.  Paths are sequences of names, relative to SOURCE_DIR      *)
(* (source tree) or OUTPUT_DIR (destination tree); <<>> is the root.       *)
(***************************************************************************)
N_a_txt == <<"a", ".", "t", "x", "t">>
N_b_txt == <<"b", ".", "t", "x", "t">>
N_c_log == <<"c", ".", "l", "o", "g">>
N_sub == <<"s", "u", "b">>

P_root == <<>>
P_a == <<N_a_txt>>
P_sub == <<N_sub>>
P_b == <<N_sub, N_b_txt>>
P_c == <<N_sub, N_c_log>>

\* every path of the universe below a root
Paths == {P_a, P_sub, P_b, P_c}

\* the extension filters tried: none (None or "" are both falsy) and "txt"
Ext_none == <<>>
Ext_txt == <<"t", "x", "t">>
Exts == {Ext_none, Ext_txt}

\* file contents: byte strings of at most MaxLen bytes; byte i of a content is i
Contents == {[i \in 1..n |-> i] : n \in 0..MaxLen}

\* a node of a file system: nothing, a directory, a regular file, or an entry
\* that is neither (a socket, a fifo, a dangling link)
Absent == [kind |-> "absent", data |-> <<>>]
Dir == [kind |-> "dir", data |-> <<>>]
Other == [kind |-> "other", data |-> <<>>]
File(c) == [kind |-> "file", data |-> c]

\* Python values: None, ints, pairs; a local name not bound yet
NoneVal == [tag |-> "None"]
IntVal(n) == [tag |-> "int", val |-> n]
PairVal(a, b) == [tag |-> "tuple", fst |-> a, snd |-> b]
Unbound == [tag |-> "unbound"]
BoolVal(b) == [tag |-> "bool", val |-> b]

Parent(p) == SubSeq(p, 1, Len(p) - 1)
Basename(p) == p[Len(p)]

\* a tree is well formed when every present node below the root has a directory
\* as its parent
WellFormed(fs) ==
    \A p \in Paths :
        (fs[p].kind # "absent" /\ Len(p) > 1) => fs[Parent(p)].kind = "dir"

VARIABLES
    root_kind,   \* what SOURCE_DIR is: "dir", "file" or "absent"
    src,         \* the tree below SOURCE_DIR: [Paths -> node]
    src0,        \* the tree below SOURCE_DIR when the run started
    out_at,      \* where OUTPUT_DIR is: "apart" from SOURCE_DIR, the "same"
                 \* directory, or the directory out "inside" it
    order,       \* the order in which os.scandir lists any directory
    ftype,       \* --extension
    recursive,   \* -r
    gen,         \* the generator object walk_files returned
    yielded,     \* the descriptors pulled from gen so far
    counted,     \* what count_dir_files returned or raised
    sized,       \* what count_dir_files_and_size returned or raised
    overwrite,   \* -f
    dst,         \* the tree below OUTPUT_DIR: [Paths -> node]
    dst0,        \* the tree below OUTPUT_DIR when the first run started
    jobs,        \* per descriptor, the state of its _copy_safe call
    prev,        \* per descriptor, how its call ended in the pass before
    run,         \* which pass over the descriptors this is
    out_kind,    \* what OUTPUT_DIR is: "dir", "file" or "absent"
    save_logs,   \* whether -l is given
    log_exists,  \* whether a file exists at the -l path
    CAPTURE_LOGS_ALLOWED,  \* the module global of utils.py:20
    cli_pc,      \* where cli() is
    exit_code,   \* the exit status of the process, once it has exited
    total_jobs,  \* the local total_jobs of cli(): the total of the job bar
    total_size,  \* the local total_size of cli(): the total of the byte bar
    jobs_completed,   \* the job bar's completed count
    bytes_completed,  \* the byte bar's completed count
    pool,        \* the local pool of cli(): the multiprocessing.Pool
    odirs,       \* what OUTPUT_DIR/d1 and OUTPUT_DIR/d1/d2 are, by depth
    mk,          \* per worker, where its os.makedirs(output_path) is
    log_form,    \* the form of the -l path: "bare", "dir" or "nodir"
    log_existed, \* whether a file was at the -l path when the run started
    log_buf,     \* the lines the recording console holds
    log_saved,   \* <<n>> once console.save_text wrote n lines to the -l path
    log_pc,      \* which of the log helpers have been called
    da,          \* the dict a passed to sorted_dicts_are_equal
    db,          \* the dict b passed to sorted_dicts_are_equal
    eq_ab,       \* what sorted_dicts_are_equal(a, b) returned
    eq_ba,       \* what sorted_dicts_are_equal(b, a) returned
    td_before,   \* the content of the dict passed to trim_dict, before the call
    td_doc,      \* the content of that same dict object now
    td_ret       \* what trim_dict returned

walkVars == <<gen, yielded, counted, sized>>
envVars == <<root_kind, src, src0, out_at, order, ftype, recursive>>
jobVars == <<overwrite, dst, dst0, jobs, prev, run>>
cliVars ==
    <<out_kind, save_logs, log_exists, CAPTURE_LOGS_ALLOWED, cli_pc, exit_code,
      total_jobs, total_size, jobs_completed, bytes_completed, pool>>
mkVars == <<odirs, mk>>
logVars == <<log_form, log_existed, log_buf, log_saved, log_pc>>
fnVars == <<da, db, eq_ab, eq_ba, td_before, td_doc, td_ret>>
vars == <<envVars, walkVars, jobVars, cliVars, mkVars, logVars, fnVars>>

(***************************************************************************)
(* os.path.isdir, DirEntry.is_file, DirEntry.is_dir, os.scandir            *)
(***************************************************************************)
\* os.path.isdir(path) for a path of the source tree
isdir(p) == IF p = P_root THEN root_kind = "dir" ELSE src[p].kind = "dir"

is_file(p) == src[p].kind = "file"

is_dir(p) == src[p].kind = "dir"

\* the sequence s restricted to the elements of S, order kept
RECURSIVE Filter(_, _)
Filter(s, S) ==
    IF s = <<>> THEN <<>>
    ELSE IF Head(s) \in S THEN <<Head(s)>> \o Filter(Tail(s), S)
    ELSE Filter(Tail(s), S)

\* os.scandir(d): the entries present in directory d, in the file system's order
scandir(d) ==
    Filter(order, {p \in DOMAIN src : Parent(p) = d /\ src[p].kind # "absent"})

\* str.endswith
endswith(name, suffix) ==
    /\ Len(suffix) <= Len(name)
    /\ SubSeq(name, Len(name) - Len(suffix) + 1, Len(name)) = suffix

\* a filter that tests the first component of the path, not the file name
MutMatches(p, ft) == ft = <<>> \/ endswith(Head(p), ft)

\* the filter of utils.py:255 and :814: not ftype or name.endswith(ftype)
Matches(p, ft) == ft = <<>> \/ endswith(Basename(p), ft)

(***************************************************************************)
(* count_dir_files: an eager, recursive count.                             *)
(***************************************************************************)
\* a count that does not descend into subdirectories
MutCountEntries(es, ft, rec) ==
    Cardinality({i \in 1..Len(es) : is_file(es[i]) /\ Matches(es[i], ft)})

RECURSIVE CountEntries(_, _, _)
\* the loop of count_dir_files over the entries es of one directory
CountEntries(es, ft, rec) ==
    IF es = <<>> THEN 0
    ELSE LET e == Head(es)
             here == IF is_file(e)
                         THEN (IF Matches(e, ft) THEN 1 ELSE 0)
                     ELSE IF rec /\ is_dir(e)
                         THEN CountEntries(scandir(e), ft, rec)
                     ELSE 0
         IN  here + CountEntries(Tail(es), ft, rec)

\* count_dir_files(path, ftype, recursive): an int, or the AssertionError of
\* its first statement
count_dir_files(p, ft, rec) ==
    IF ~isdir(p) THEN [tag |-> "raise", exc |-> "AssertionError"]
    ELSE IntVal(CountEntries(scandir(p), ft, rec))

(***************************************************************************)
(* count_dir_files_and_size: the count and the total size in bytes.        *)
(***************************************************************************)
\* a, b = value: the two items of a pair, or TypeError for a value that is
\* not iterable
unpack2(value) ==
    IF value.tag = "tuple"
        THEN [ok |-> TRUE, fst |-> value.fst, snd |-> value.snd]
        ELSE [ok |-> FALSE, fst |-> Unbound, snd |-> Unbound]

\* os.path.getsize
getsize(p) == Len(src[p].data)

RECURSIVE SizeEntries(_, _, _, _, _)
\* the loop of count_dir_files_and_size over the entries es of one directory,
\* from the running totals n and sz.  For a subdirectory it calls
\* count_dir_files (utils.py:292) and unpacks the int that call returns.
SizeEntries(es, ft, rec, n, sz) ==
    IF es = <<>> THEN PairVal(n, sz)
    ELSE LET e == Head(es)
         IN  IF is_file(e)
                 THEN IF Matches(e, ft)
                          THEN SizeEntries(Tail(es), ft, rec, n + 1, sz + getsize(e))
                          ELSE SizeEntries(Tail(es), ft, rec, n, sz)
             ELSE IF rec /\ is_dir(e)
                 THEN LET u == unpack2(count_dir_files(e, ft, rec))
                      IN  IF u.ok
                              THEN SizeEntries(Tail(es), ft, rec, n + u.fst, sz + u.snd)
                              ELSE [tag |-> "raise", exc |-> "TypeError"]
             ELSE SizeEntries(Tail(es), ft, rec, n, sz)

\* count_dir_files_and_size(path, ftype, recursive): a pair, or the
\* AssertionError of its first statement, or the TypeError of utils.py:292
count_dir_files_and_size(p, ft, rec) ==
    IF ~isdir(p) THEN [tag |-> "raise", exc |-> "AssertionError"]
    ELSE SizeEntries(scandir(p), ft, rec, 0, 0)

(***************************************************************************)
(* walk_files: a generator.  Calling it runs none of its body; each pull   *)
(* runs the body up to the next yield.  A frame is one activation of       *)
(* walk_files suspended in its for loop: the entries its scandir iterator  *)
(* has still to deliver.                                                   *)
(***************************************************************************)
NoGen == [state |-> "none", stack |-> <<>>, exc |-> "none"]

RECURSIVE Resume(_, _, _)
\* run the frames of the generator until a yield or until the outermost frame
\* returns: the new stack and what was yielded (<<>> for StopIteration, else
\* <<descriptor>>).  The assert of a nested walk_files(path_) is not shown: it
\* follows path_.is_dir() on the same tree and cannot fail.
Resume(stack, ft, rec) ==
    IF stack = <<>> THEN [stack |-> <<>>, out |-> <<>>]
    ELSE LET top == Head(stack)
             rest == Tail(stack)
         IN  IF top = <<>> THEN Resume(rest, ft, rec)
             ELSE LET e == Head(top)
                      stack1 == <<Tail(top)>> \o rest
                  IN  IF is_file(e)
                          THEN IF Matches(e, ft)
                                   THEN [stack |-> stack1, out |-> <<e>>]
                                   ELSE Resume(stack1, ft, rec)
                      ELSE IF rec /\ is_dir(e)
                          THEN Resume(<<scandir(e)>> \o stack1, ft, rec)
                      ELSE Resume(stack1, ft, rec)

\* a pull that skips the check of utils.py:808
MutPull(g, ft, rec) ==
    LET st == IF g.state = "created" THEN <<scandir(P_root)>> ELSE g.stack
        r == Resume(st, ft, rec)
    IN  [gen |-> [state |-> IF r.out = <<>> THEN "done" ELSE "running",
                  stack |-> r.stack, exc |-> "none"],
         out |-> r.out]

\* next(gen): the generator after the pull and what the pull returned
Pull(g, ft, rec) ==
    IF g.state = "created" /\ ~isdir(P_root)
        \* utils.py:808, reached at the first pull only
        THEN [gen |-> [state |-> "raised", stack |-> <<>>, exc |-> "AssertionError"],
              out |-> <<>>]
    ELSE LET st == IF g.state = "created" THEN <<scandir(P_root)>> ELSE g.stack
             r == Resume(st, ft, rec)
         IN  [gen |-> [state |-> IF r.out = <<>> THEN "done" ELSE "running",
                       stack |-> r.stack, exc |-> "none"],
              out |-> r.out]

RECURSIVE WalkEntries(_, _, _)
\* everything the for loop of walk_files yields over the entries es of one
\* directory when it is pulled to exhaustion, yield from included
WalkEntries(es, ft, rec) ==
    IF es = <<>> THEN <<>>
    ELSE LET e == Head(es)
             here == IF is_file(e)
                         THEN (IF Matches(e, ft) THEN <<e>> ELSE <<>>)
                     ELSE IF rec /\ is_dir(e)
                         THEN WalkEntries(scandir(e), ft, rec)
                     ELSE <<>>
         IN  here \o WalkEntries(Tail(es), ft, rec)

NewGen == [state |-> "created", stack |-> <<>>, exc |-> "none"]

(***************************************************************************)
(* _copy_safe and _copy (copy.py:28-92).  A job is one call of _copy_safe  *)
(* on one descriptor; its steps are the system calls of _copy, which other *)
(* workers' steps may interleave with.  A job fails when the source cannot *)
(* be read, when its output lies below something that is no directory, or  *)
(* when the write stops part-way; every failure is an Exception, which     *)
(* _copy_safe catches and logs once.                                       *)
(***************************************************************************)
\* SOURCE_DIR as the command line gives it, in parts
N_src == <<"s", "r", "c">>
source_dir == <<N_src>>

\* DirEntry.path of the descriptor of e: os.path.join(SOURCE_DIR, ...)
EntryPath(e) == source_dir \o e

\* copy.py:53: p.parts[len(sd.parts):-1]
sub_path(path) == SubSeq(path, Len(source_dir) + 1, Len(path) - 1)

\* copy.py:52 and :64: os.path.join(output_path, basename), below OUTPUT_DIR
full_output_path(path) == sub_path(path) \o <<Basename(path)>>

NoJob ==
    [pc |-> "none", doc |-> <<>>, size |-> 0, wrote |-> 0,
     outcome |-> "none", ret |-> [tag |-> "unset"], errors |-> 0]

Queued == [NoJob EXCEPT !.pc = "queued"]

\* the pool of copy.py:215: not created; and created, taking work.
\* at_interrupt is the state of the jobs when KeyboardInterrupt was raised.
NoPool ==
    [state |-> "none", interrupted |-> FALSE, at_interrupt |-> [p \in Paths |-> NoJob]]

OpenPool == [NoPool EXCEPT !.state = "open"]

\* os.makedirs(output_path) of copy.py:58 on the destination tree d: the
\* missing directory is made; FileExistsError is caught at copy.py:60
makedirs(d, out) ==
    IF out # <<>> /\ d[out].kind = "absent" THEN [d EXCEPT ![out] = Dir] ELSE d

\* pathlib.Path.exists: a path below something that is no directory does not
\* exist (ENOTDIR is swallowed)
exists(d, p) ==
    /\ d[p].kind # "absent"
    /\ Len(p) > 1 => d[Parent(p)].kind = "dir"

\* copy.py:65-76: whether _copy writes the output
MutForceInverted(d, p, force) ==
    IF exists(d, p) THEN d[p].kind = "file" /\ ~force ELSE TRUE

\* a decision that treats an existing directory like an existing file
MutDirLikeFile(d, p, force) == IF exists(d, p) THEN force ELSE TRUE

MutWriteAlways(d, p, force) == ~(exists(d, p) /\ d[p].kind = "dir")

write_decision(d, p, force) ==
    IF exists(d, p)
        THEN IF d[p].kind = "dir" THEN FALSE
             ELSE IF d[p].kind = "file" THEN force
             ELSE FALSE
    ELSE TRUE

\* the return value of _copy_safe, given the size _copy returned: the function
\* has no return statement
copy_safe_return(size) == NoneVal

\* a read that does not seek back to the start after measuring the size
MutReadNoRewind(e) == <<>>

\* copy.py:81-85: seek to the end, tell, seek to the start, read everything
read_source(e) == src[e].data

\* copy.py:231: xfer_progress.update(xfer_task, advance=fsize) adds fsize to
\* the byte bar's completed count, and nothing when fsize is None
advance_of(fsize) == IF fsize.tag = "int" THEN fsize.val ELSE 0

\* lines 49-61 of _copy: the output directory
JobMakedirs(e) ==
    /\ jobs[e].pc = "queued"
    /\ dst' = makedirs(dst, sub_path(EntryPath(e)))
    /\ jobs' = [jobs EXCEPT ![e].pc = "check"]
    /\ UNCHANGED <<fnVars, logVars, mkVars, envVars, walkVars, cliVars, overwrite, dst0, prev, run>>

\* lines 63-76 of _copy, and for a skip the return of 0 through _copy_safe
JobCheck(e) ==
    /\ jobs[e].pc = "check"
    /\ IF write_decision(dst, full_output_path(EntryPath(e)), overwrite)
           THEN jobs' = [jobs EXCEPT ![e].pc = "read"]
           ELSE jobs' = [jobs EXCEPT ![e].pc = "done",
                                     ![e].outcome = "Skipped",
                                     ![e].ret = copy_safe_return(0)]
    /\ UNCHANGED <<fnVars, logVars, mkVars, envVars, walkVars, cliVars, overwrite, dst, dst0, prev, run>>

\* lines 81-85 of _copy: the whole source is read; or open/read raises and
\* _copy_safe logs the error (copy.py:37-39)
JobRead(e) ==
    /\ jobs[e].pc = "read"
    /\ \/ jobs' = [jobs EXCEPT ![e].pc = "open",
                                ![e].doc = read_source(e),
                                ![e].size = Len(src[e].data)]
       \/ jobs' = [jobs EXCEPT ![e].pc = "done",
                                ![e].outcome = "Failed",
                                ![e].errors = @ + 1,
                                ![e].ret = copy_safe_return(0)]
    /\ UNCHANGED <<fnVars, logVars, mkVars, envVars, walkVars, cliVars, overwrite, dst, dst0, prev, run>>

\* an open that does not truncate an existing file (mode "r+b" or "ab")
MutJobOpen(e) ==
    /\ jobs[e].pc = "open"
    /\ LET out == full_output_path(EntryPath(e))
       IN  IF (Len(out) > 1 /\ dst[Parent(out)].kind # "dir") \/ dst[out].kind = "dir"
               THEN /\ jobs' = [jobs EXCEPT ![e].pc = "done",
                                            ![e].outcome = "Failed",
                                            ![e].errors = @ + 1,
                                            ![e].ret = copy_safe_return(0)]
                    /\ dst' = dst
               ELSE /\ jobs' = [jobs EXCEPT ![e].pc = "write"]
                    /\ dst' = [dst EXCEPT ![out] =
                                  IF @.kind = "file" THEN @ ELSE File(<<>>)]
    /\ UNCHANGED <<fnVars, logVars, mkVars, envVars, walkVars, cliVars, overwrite, dst0, prev, run>>

\* line 87 of _copy: open(full_output_path, "wb") creates or truncates the
\* file; it raises when the parent is no directory
JobOpen(e) ==
    /\ jobs[e].pc = "open"
    /\ LET out == full_output_path(EntryPath(e))
       IN  IF (Len(out) > 1 /\ dst[Parent(out)].kind # "dir") \/ dst[out].kind = "dir"
               THEN /\ jobs' = [jobs EXCEPT ![e].pc = "done",
                                            ![e].outcome = "Failed",
                                            ![e].errors = @ + 1,
                                            ![e].ret = copy_safe_return(0)]
                    /\ dst' = dst
               ELSE /\ jobs' = [jobs EXCEPT ![e].pc = "write"]
                    /\ dst' = [dst EXCEPT ![out] = File(<<>>)]
    /\ UNCHANGED <<fnVars, logVars, mkVars, envVars, walkVars, cliVars, overwrite, dst0, prev, run>>

\* lines 88-92 of _copy: the content is written and size returned; or the
\* write raises part-way (disk full) and _copy_safe logs the error
JobWrite(e) ==
    /\ jobs[e].pc = "write"
    /\ LET out == full_output_path(EntryPath(e))
           doc == jobs[e].doc
       IN  \/ /\ dst' = [dst EXCEPT ![out] = File(doc)]
              /\ jobs' = [jobs EXCEPT ![e].pc = "done",
                                      ![e].outcome = "Written",
                                      ![e].wrote = Len(doc),
                                      ![e].ret = copy_safe_return(jobs[e].size)]
           \/ \E n \in 0..(Len(doc) - 1) :
                  /\ dst' = [dst EXCEPT ![out] = File(SubSeq(doc, 1, n))]
                  /\ jobs' = [jobs EXCEPT ![e].pc = "done",
                                          ![e].outcome = "Failed",
                                          ![e].wrote = n,
                                          ![e].errors = @ + 1,
                                          ![e].ret = copy_safe_return(0)]
    /\ UNCHANGED <<fnVars, logVars, mkVars, envVars, walkVars, cliVars, overwrite, dst0, prev, run>>

(***************************************************************************)
(* SpecWalk: the helpers called on a tree.                                 *)
(***************************************************************************)
\* cli() is not running
CliIdle ==
    /\ out_kind = "dir"
    /\ save_logs = FALSE
    /\ log_exists = FALSE
    /\ CAPTURE_LOGS_ALLOWED = FALSE
    /\ cli_pc = "none"
    /\ exit_code = NoneVal
    /\ total_jobs = Unbound
    /\ total_size = Unbound
    /\ jobs_completed = 0
    /\ bytes_completed = 0

(***************************************************************************)
(* os.makedirs(output_path) of copy.py:57-61, step by step.  The output    *)
(* directory of a job lies one or two segments below OUTPUT_DIR (d1 or     *)
(* d1/d2).  os.makedirs tests whether the head of the path exists, makes   *)
(* the head by a recursive call if it does not (a FileExistsError of that  *)
(* call is swallowed), and then calls mkdir on the path itself; every      *)
(* mkdir is one system call, and other workers' steps interleave between   *)
(* the steps.                                                              *)
(***************************************************************************)
Workers == 1..MaxWorkers

NoMk == [pc |-> "none", depth |-> 0, head_exc |-> "none", exc |-> "none"]

\* an empty dict
EmptyDict == [k \in {} |-> 0]

\* neither dict helper has been called
FnIdle ==
    /\ da = EmptyDict
    /\ db = EmptyDict
    /\ eq_ab = [tag |-> "none"]
    /\ eq_ba = [tag |-> "none"]
    /\ td_before = EmptyDict
    /\ td_doc = EmptyDict
    /\ td_ret = [tag |-> "none"]

\* the forms of a -l path: a bare file name (os.path.dirname is ""), a path
\* whose directory exists, a path whose directory does not exist
LogForms == {"bare", "dir", "nodir"}

\* no log helper has been called and nothing is recorded
LogIdle ==
    /\ log_form = "bare"
    /\ log_existed = FALSE
    /\ log_buf = 0
    /\ log_saved = <<>>
    /\ log_pc = "none"

\* no job is in os.makedirs
MkIdle ==
    /\ odirs = [i \in 1..2 |-> "absent"]
    /\ mk = [w \in Workers |-> NoMk]

\* what os.mkdir raises on the path of depth i, "none" when it makes it
mkdir_exc(i) ==
    IF i > 1 /\ odirs[i - 1] = "absent" THEN "FileNotFoundError"
    ELSE IF i > 1 /\ odirs[i - 1] = "file" THEN "NotADirectoryError"
    ELSE IF odirs[i] # "absent" THEN "FileExistsError"
    ELSE "none"

\* the tree after os.mkdir on the path of depth i
mkdir(i) == IF mkdir_exc(i) = "none" THEN [odirs EXCEPT ![i] = "dir"] ELSE odirs

\* os.makedirs is entered: `if head and tail and not path.exists(head)`.
\* The head of a path of depth 1 is OUTPUT_DIR, which exists.
MkStart(w) ==
    /\ mk[w].pc = "start"
    /\ mk' = [mk EXCEPT ![w].pc =
                 IF mk[w].depth = 2 /\ odirs[1] = "absent" THEN "mk_head" ELSE "mk_tail"]
    /\ UNCHANGED <<fnVars, logVars, envVars, walkVars, jobVars, cliVars, odirs>>

\* the recursive makedirs(head): mkdir on d1; its FileExistsError is
\* swallowed by the caller ("another thread created the path")
MkHead(w) ==
    /\ mk[w].pc = "mk_head"
    /\ odirs' = mkdir(1)
    /\ mk' = [mk EXCEPT ![w].pc = "mk_tail", ![w].head_exc = mkdir_exc(1)]
    /\ UNCHANGED <<fnVars, logVars, envVars, walkVars, jobVars, cliVars>>

\* a job whose except clause does not cover the FileExistsError of makedirs
MutMkTail(w) ==
    /\ mk[w].pc = "mk_tail"
    /\ odirs' = mkdir(mk[w].depth)
    /\ mk' = [mk EXCEPT ![w].exc = mkdir_exc(mk[w].depth),
                        ![w].pc = IF mkdir_exc(mk[w].depth) = "none"
                                      THEN "ok" ELSE "failed"]
    /\ UNCHANGED <<fnVars, logVars, envVars, walkVars, jobVars, cliVars>>

\* mkdir on the path itself.  os.makedirs re-raises its OSError (exist_ok
\* is False); copy.py:60 catches FileExistsError and the job goes on; any
\* other error leaves _copy and _copy_safe logs it: the job has failed.
MkTail(w) ==
    /\ mk[w].pc = "mk_tail"
    /\ odirs' = mkdir(mk[w].depth)
    /\ mk' = [mk EXCEPT ![w].exc = mkdir_exc(mk[w].depth),
                        ![w].pc = IF mkdir_exc(mk[w].depth) \in {"none", "FileExistsError"}
                                      THEN "ok" ELSE "failed"]
    /\ UNCHANGED <<fnVars, logVars, envVars, walkVars, jobVars, cliVars>>

\* the trees below OUTPUT_DIR a run may find: d1/d2 is there only in a
\* directory d1
OutDirs ==
    {t \in [1..2 -> {"absent", "dir", "file"}] : t[2] # "absent" => t[1] = "dir"}

InitMkdirs ==
    /\ odirs \in OutDirs
    /\ mk \in [Workers -> {[NoMk EXCEPT !.pc = "start", !.depth = d] : d \in 1..2}]
    /\ root_kind = "dir"
    /\ src = [p \in Paths |-> Absent]
    /\ src0 = src
    /\ out_at = "apart"
    /\ order = <<P_a, P_sub, P_b, P_c>>
    /\ ftype = Ext_none
    /\ recursive = TRUE
    /\ gen = NoGen
    /\ yielded = <<>>
    /\ counted = [tag |-> "none"]
    /\ sized = [tag |-> "none"]
    /\ overwrite = FALSE
    /\ dst = [p \in Paths |-> Absent]
    /\ dst0 = dst
    /\ jobs = [p \in Paths |-> NoJob]
    /\ prev = jobs
    /\ run = 1
    /\ pool = OpenPool
    /\ LogIdle
    /\ FnIdle
    /\ CliIdle

NextMkdirs ==
    \/ \E w \in Workers : MkStart(w)
    \/ \E w \in Workers : MkHead(w)
    \/ \E w \in Workers : MkTail(w)

SpecMkdirs == InitMkdirs /\ [][NextMkdirs]_vars

(***************************************************************************)
(* The trees and scandir orders of SpecWalk.                               *)
(***************************************************************************)
\* every ordering of the universe's paths, as os.scandir may list them
Orders ==
    {o \in [1..Cardinality(Paths) -> Paths] :
        \A p \in Paths : \E i \in 1..Cardinality(Paths) : o[i] = p}

\* the trees of the source universe
Trees ==
    {fs \in [Paths -> {Absent, Dir, Other} \cup {File(c) : c \in Contents}] :
        /\ WellFormed(fs)
        /\ fs[P_a].kind \in {"absent", "file"}
        /\ fs[P_b].kind \in {"absent", "file"}
        /\ fs[P_c].kind \in {"absent", "file", "other"}}

InitWalk ==
    /\ root_kind \in {"dir", "file", "absent"}
    /\ src \in Trees
    /\ src0 = src
    /\ out_at = "apart"
    /\ root_kind # "dir" => src = [p \in Paths |-> Absent]
    /\ order \in Orders
    /\ ftype \in Exts
    /\ recursive \in BOOLEAN
    /\ gen = NoGen
    /\ yielded = <<>>
    /\ counted = [tag |-> "none"]
    /\ sized = [tag |-> "none"]
    /\ overwrite = FALSE
    /\ dst = [p \in Paths |-> Absent]
    /\ dst0 = dst
    /\ jobs = [p \in Paths |-> NoJob]
    /\ prev = jobs
    /\ run = 0
    /\ pool = NoPool
    /\ MkIdle
    /\ FnIdle
    /\ LogIdle
    /\ CliIdle

\* g = walk_files(path, ftype, recursive): builds the generator object
CallWalkFiles ==
    /\ gen.state = "none"
    /\ gen' = NewGen
    /\ UNCHANGED <<fnVars, logVars, mkVars, envVars, jobVars, cliVars, yielded, counted, sized>>

\* next(g)
WalkNext ==
    /\ gen.state \in {"created", "running"}
    /\ LET r == Pull(gen, ftype, recursive)
       IN  /\ gen' = r.gen
           /\ yielded' = yielded \o r.out
    /\ UNCHANGED <<fnVars, logVars, mkVars, envVars, jobVars, cliVars, counted, sized>>

\* n = count_dir_files(path, ftype, recursive)
CallCountDirFiles ==
    /\ counted.tag = "none"
    /\ counted' = count_dir_files(P_root, ftype, recursive)
    /\ UNCHANGED <<fnVars, logVars, mkVars, envVars, jobVars, cliVars, gen, yielded, sized>>

\* t = count_dir_files_and_size(path, ftype, recursive)
CallCountDirFilesAndSize ==
    /\ sized.tag = "none"
    /\ sized' = count_dir_files_and_size(P_root, ftype, recursive)
    /\ UNCHANGED <<fnVars, logVars, mkVars, envVars, jobVars, cliVars, gen, yielded, counted>>

NextWalk ==
    CallWalkFiles \/ WalkNext \/ CallCountDirFiles \/ CallCountDirFilesAndSize

SpecWalk == InitWalk /\ [][NextWalk]_vars

(***************************************************************************)
(* SpecJobs: _copy_safe applied to every descriptor walk_files yields, by  *)
(* workers that interleave freely (a pool of any size and any chunking     *)
(* runs a subset of these interleavings); then applied again, as a second  *)
(* pass over the same tree does.                                           *)
(***************************************************************************)
\* what a file already below OUTPUT_DIR holds: no source file holds it
OldContent == <<0>>

\* the content of the source file at p: one byte, MaxLen bytes, or none
JobContent(p) ==
    IF p = P_a THEN [i \in 1..1 |-> i]
    ELSE IF p = P_b THEN [i \in 1..MaxLen |-> i]
    ELSE <<>>

JobTrees ==
    {fs \in [Paths -> {Absent, Dir} \cup {File(JobContent(p)) : p \in Paths}] :
        /\ WellFormed(fs)
        /\ fs[P_sub].kind \in {"absent", "dir"}
        /\ \A p \in {P_a, P_b, P_c} : fs[p] \in {Absent, File(JobContent(p))}}

DestTrees ==
    {fs \in [Paths -> {Absent, Dir, File(OldContent)}] :
        /\ WellFormed(fs)
        /\ fs[P_b].kind \in {"absent", "file"}
        /\ fs[P_c].kind \in {"absent", "file"}}

\* the descriptors walk_files yields on the source tree
Descriptors == WalkEntries(scandir(P_root), ftype, recursive)

Range(s) == {s[i] : i \in 1..Len(s)}

InitJobs ==
    /\ root_kind = "dir"
    /\ src \in JobTrees
    /\ src0 = src
    /\ out_at = "apart"
    /\ order = <<P_a, P_sub, P_b, P_c>>
    /\ ftype \in Exts
    /\ recursive \in BOOLEAN
    /\ gen = NoGen
    /\ yielded = <<>>
    /\ counted = [tag |-> "none"]
    /\ sized = [tag |-> "none"]
    /\ overwrite \in BOOLEAN
    /\ dst \in DestTrees
    /\ dst0 = dst
    /\ jobs = [p \in Paths |-> IF p \in Range(Descriptors) THEN Queued ELSE NoJob]
    /\ prev = [p \in Paths |-> NoJob]
    /\ run = 1
    /\ pool = OpenPool
    /\ MkIdle
    /\ FnIdle
    /\ LogIdle
    /\ CliIdle

AllDone == \A p \in Paths : jobs[p].pc \in {"none", "done"}

\* the command is run again on the same trees, with or without -f
RunAgain ==
    /\ AllDone
    /\ run < MaxRuns
    /\ run' = run + 1
    /\ overwrite' \in BOOLEAN
    /\ prev' = jobs
    /\ dst0' = dst
    /\ jobs' = [p \in Paths |-> IF p \in Range(Descriptors) THEN Queued ELSE NoJob]
    /\ UNCHANGED <<fnVars, logVars, mkVars, envVars, walkVars, cliVars, dst>>

NextJobs ==
    \/ \E e \in Paths : JobMakedirs(e)
    \/ \E e \in Paths : JobCheck(e)
    \/ \E e \in Paths : JobRead(e)
    \/ \E e \in Paths : JobOpen(e)
    \/ \E e \in Paths : JobWrite(e)
    \/ RunAgain

SpecJobs == InitJobs /\ [][NextJobs]_vars

(***************************************************************************)
(* SpecPool: one pass of the pool's workers over the descriptors, the main *)
(* process waiting in the for loop of copy.py:217-231, and an external     *)
(* interrupt (SIGINT).  cli() has no handler for KeyboardInterrupt and     *)
(* _copy_safe catches Exception only: the interrupt unwinds the main       *)
(* process out of the loop, past pool.close() and pool.join(); the workers *)
(* go on taking queued work until the pool is torn down when the process   *)
(* exits, which kills them where they stand.                               *)
(***************************************************************************)
\* copy.py:233: the loop has collected every result; pool.close()
PoolClose ==
    /\ pool.state = "open"
    /\ ~pool.interrupted
    /\ AllDone
    /\ pool' = [pool EXCEPT !.state = "closed"]
    /\ UNCHANGED <<fnVars, logVars, mkVars, envVars, walkVars, jobVars, out_kind, save_logs, log_exists,
                   CAPTURE_LOGS_ALLOWED, cli_pc, exit_code, total_jobs, total_size,
                   jobs_completed, bytes_completed>>

\* copy.py:234-236: pool.join(), then "Job pool complete."
PoolJoin ==
    /\ pool.state = "closed"
    /\ pool' = [pool EXCEPT !.state = "joined"]
    /\ UNCHANGED <<fnVars, logVars, mkVars, envVars, walkVars, jobVars, out_kind, save_logs, log_exists,
                   CAPTURE_LOGS_ALLOWED, cli_pc, exit_code, total_jobs, total_size,
                   jobs_completed, bytes_completed>>

\* SIGINT while the main process is in the loop of copy.py:217-231:
\* KeyboardInterrupt is raised there and nothing catches it
Interrupt ==
    /\ pool.state = "open"
    /\ ~pool.interrupted
    /\ pool' = [pool EXCEPT !.interrupted = TRUE, !.at_interrupt = jobs]
    /\ UNCHANGED <<fnVars, logVars, mkVars, envVars, walkVars, jobVars, out_kind, save_logs, log_exists,
                   CAPTURE_LOGS_ALLOWED, cli_pc, exit_code, total_jobs, total_size,
                   jobs_completed, bytes_completed>>

\* the interrupted process exits without having closed or joined the pool
\* (copy.py:233-234 are skipped): the pool is terminated, every job that has
\* not ended is killed at the step it is at, and exit status is 1
PoolTerminate ==
    /\ pool.state = "open"
    /\ pool.interrupted
    /\ pool' = [pool EXCEPT !.state = "terminated"]
    /\ jobs' = [p \in Paths |->
                  IF jobs[p].pc \in {"none", "done"} THEN jobs[p]
                  ELSE [jobs[p] EXCEPT !.pc = "killed", !.outcome = "Killed"]]
    /\ exit_code' = IntVal(1)
    /\ UNCHANGED <<fnVars, logVars, mkVars, envVars, walkVars, overwrite, dst, dst0, prev, run, out_kind,
                   save_logs, log_exists, CAPTURE_LOGS_ALLOWED, cli_pc, total_jobs,
                   total_size, jobs_completed, bytes_completed>>

NextPool ==
    \/ \E e \in Paths : JobMakedirs(e)
    \/ \E e \in Paths : JobCheck(e)
    \/ \E e \in Paths : JobRead(e)
    \/ \E e \in Paths : JobOpen(e)
    \/ \E e \in Paths : JobWrite(e)
    \/ PoolClose
    \/ PoolJoin
    \/ Interrupt
    \/ PoolTerminate

SpecPool == InitJobs /\ [][NextPool]_vars

(***************************************************************************)
(* Spec: one invocation of cli() (copy.py:98-239).                         *)
(***************************************************************************)
\* user_allows_file_overwrite(path, force) of utils.py:749-791, ans being the
\* user's answer to the prompt
user_allows_file_overwrite(isfile, force, ans) ==
    IF isfile /\ ~force THEN ans ELSE TRUE

InitCli ==
    /\ root_kind \in {"dir", "file", "absent"}
    /\ src \in JobTrees
    /\ src0 = src
    /\ out_at = "apart"
    /\ root_kind # "dir" => src = [p \in Paths |-> Absent]
    /\ order = <<P_a, P_sub, P_b, P_c>>
    /\ ftype \in Exts
    /\ recursive \in BOOLEAN
    /\ gen = NoGen
    /\ yielded = <<>>
    /\ counted = [tag |-> "none"]
    /\ sized = [tag |-> "none"]
    /\ overwrite \in BOOLEAN
    /\ out_kind \in {"dir", "file", "absent"}
    /\ dst \in DestTrees
    /\ out_kind # "dir" => dst = [p \in Paths |-> Absent]
    /\ dst0 = dst
    /\ jobs = [p \in Paths |-> NoJob]
    /\ prev = jobs
    /\ run = 1
    /\ save_logs \in BOOLEAN
    /\ log_exists \in BOOLEAN
    /\ CAPTURE_LOGS_ALLOWED = FALSE
    /\ cli_pc = "args"
    /\ exit_code = NoneVal
    /\ total_jobs = Unbound
    /\ total_size = Unbound
    /\ jobs_completed = 0
    /\ bytes_completed = 0
    /\ pool = NoPool
    /\ MkIdle
    /\ FnIdle
    /\ log_form \in LogForms
    /\ log_form = "nodir" => ~log_exists
    /\ log_existed = log_exists
    /\ log_buf = 0
    /\ log_saved = <<>>
    /\ log_pc = "none"

\* an argument check that looks at SOURCE_DIR only
MutCliArgs ==
    /\ cli_pc = "args"
    /\ IF root_kind = "dir"
           THEN cli_pc' = "configure" /\ exit_code' = exit_code
           ELSE cli_pc' = "usage_error" /\ exit_code' = IntVal(2)
    /\ UNCHANGED <<fnVars, logVars, mkVars, envVars, walkVars, jobVars, out_kind, save_logs, log_exists,
                   CAPTURE_LOGS_ALLOWED, total_jobs, total_size, jobs_completed,
                   bytes_completed, pool>>

\* copy.py:123-124: click checks that SOURCE_DIR and OUTPUT_DIR exist and are
\* directories before cli() is entered; a usage error exits with status 2
CliArgs ==
    /\ cli_pc = "args"
    /\ IF root_kind = "dir" /\ out_kind = "dir"
           THEN cli_pc' = "configure" /\ exit_code' = exit_code
           ELSE cli_pc' = "usage_error" /\ exit_code' = IntVal(2)
    /\ UNCHANGED <<fnVars, logVars, mkVars, envVars, walkVars, jobVars, out_kind, save_logs, log_exists,
                   CAPTURE_LOGS_ALLOWED, total_jobs, total_size, jobs_completed,
                   bytes_completed, pool>>

\* a check_capture_logs that ends the process when the user declines
MutCliConfigure ==
    /\ cli_pc = "configure"
    /\ \E ans \in BOOLEAN :
          IF ~save_logs
              THEN /\ UNCHANGED <<CAPTURE_LOGS_ALLOWED, log_exists, exit_code>>
                   /\ cli_pc' = "spool"
          ELSE IF user_allows_file_overwrite(log_exists, overwrite, ans)
              THEN /\ CAPTURE_LOGS_ALLOWED' = TRUE /\ log_exists' = FALSE
                   /\ cli_pc' = "spool" /\ exit_code' = exit_code
          ELSE /\ UNCHANGED <<CAPTURE_LOGS_ALLOWED, log_exists>>
               /\ cli_pc' = "aborted" /\ exit_code' = IntVal(1)
    /\ UNCHANGED <<fnVars, logVars, mkVars, envVars, walkVars, jobVars, out_kind, save_logs,
                   total_jobs, total_size, jobs_completed, bytes_completed, pool>>

\* copy.py:187-190: configure_logger, check_capture_logs (utils.py:172-200),
\* print_params_debug
CliConfigure ==
    /\ cli_pc = "configure"
    /\ \E ans \in BOOLEAN :
          IF ~save_logs
              THEN UNCHANGED <<CAPTURE_LOGS_ALLOWED, log_exists>>
          ELSE IF user_allows_file_overwrite(log_exists, overwrite, ans)
              THEN CAPTURE_LOGS_ALLOWED' = TRUE /\ log_exists' = FALSE
          ELSE UNCHANGED <<CAPTURE_LOGS_ALLOWED, log_exists>>
    /\ cli_pc' = "spool"
    /\ UNCHANGED <<fnVars, logVars, mkVars, envVars, walkVars, jobVars, out_kind, save_logs, exit_code,
                   total_jobs, total_size, jobs_completed, bytes_completed, pool>>

\* copy.py:196-197: total_jobs, total_size = count_dir_files(...).  The call
\* returns an int, the unpacking raises TypeError, nothing in cli() catches it
\* and the process exits with status 1: lines 199-239 (the progress bars, the
\* pool, capture_logs) are never reached.
CliSpool ==
    /\ cli_pc = "spool"
    /\ LET r == count_dir_files(P_root, ftype, recursive)
           u == unpack2(r)
       IN  /\ total_jobs' = u.fst
           /\ total_size' = u.snd
           /\ cli_pc' = IF u.ok THEN "dispatch" ELSE "crashed"
           /\ exit_code' = IF u.ok THEN exit_code ELSE IntVal(1)
    /\ UNCHANGED <<fnVars, logVars, mkVars, envVars, walkVars, jobVars, out_kind, save_logs, log_exists,
                   CAPTURE_LOGS_ALLOWED, jobs_completed, bytes_completed, pool>>

Next == CliArgs \/ CliConfigure \/ CliSpool

Spec == InitCli /\ [][Next]_vars

(***************************************************************************)
(* SpecLogs: the log helpers of utils.py in the order cli() calls them:    *)
(* check_capture_logs (copy.py:188), whatever the run logs after it, and   *)
(* capture_logs (copy.py:238-239).  configure_logger has made a console    *)
(* that records exactly when -l is given (copy.py:187, utils.py:52).       *)
(***************************************************************************)
InitLogs ==
    /\ save_logs \in BOOLEAN
    /\ log_form \in LogForms
    /\ log_exists \in BOOLEAN
    /\ log_form = "nodir" => ~log_exists
    /\ ~save_logs => (log_form = "bare" /\ ~log_exists)
    /\ log_existed = log_exists
    /\ log_buf = 0
    /\ log_saved = <<>>
    /\ log_pc = "start"
    /\ CAPTURE_LOGS_ALLOWED = FALSE
    /\ overwrite \in BOOLEAN
    /\ root_kind = "dir"
    /\ src = [p \in Paths |-> Absent]
    /\ src0 = src
    /\ out_at = "apart"
    /\ order = <<P_a, P_sub, P_b, P_c>>
    /\ ftype = Ext_none
    /\ recursive = FALSE
    /\ gen = NoGen
    /\ yielded = <<>>
    /\ counted = [tag |-> "none"]
    /\ sized = [tag |-> "none"]
    /\ dst = [p \in Paths |-> Absent]
    /\ dst0 = dst
    /\ jobs = [p \in Paths |-> NoJob]
    /\ prev = jobs
    /\ run = 1
    /\ pool = NoPool
    /\ MkIdle
    /\ FnIdle
    /\ out_kind = "dir"
    /\ cli_pc = "none"
    /\ exit_code = NoneVal
    /\ total_jobs = Unbound
    /\ total_size = Unbound
    /\ jobs_completed = 0
    /\ bytes_completed = 0

\* check_capture_logs(save_logs, force=force), utils.py:172-200
CallCheckCaptureLogs ==
    /\ log_pc = "start"
    /\ \E ans \in BOOLEAN :
          IF ~save_logs
              THEN UNCHANGED <<CAPTURE_LOGS_ALLOWED, log_exists>>
          ELSE IF user_allows_file_overwrite(log_exists, overwrite, ans)
              THEN CAPTURE_LOGS_ALLOWED' = TRUE /\ log_exists' = FALSE
          ELSE UNCHANGED <<CAPTURE_LOGS_ALLOWED, log_exists>>
    /\ log_pc' = "checked"
    /\ UNCHANGED <<fnVars, mkVars, envVars, walkVars, jobVars, out_kind, save_logs, cli_pc,
                   exit_code, total_jobs, total_size, jobs_completed, bytes_completed,
                   pool, log_form, log_existed, log_buf, log_saved>>

\* a logger call of the run between the two helpers: the console records the
\* line when it was made with record=True
LogRecord ==
    /\ log_pc = "checked"
    /\ save_logs
    /\ log_buf < MaxLines
    /\ log_buf' = log_buf + 1
    /\ UNCHANGED <<fnVars, mkVars, envVars, walkVars, jobVars, cliVars, log_form, log_existed,
                   log_saved, log_pc>>

\* a capture_logs without the guard of utils.py:150-152
MutCallCaptureLogs ==
    /\ log_pc = "checked"
    /\ save_logs
    /\ IF log_form = "dir"
           THEN /\ log_exists' = TRUE
                /\ log_saved' = <<log_buf>>
                /\ log_buf' = 0
           ELSE UNCHANGED <<log_exists, log_saved, log_buf>>
    /\ log_pc' = "captured"
    /\ UNCHANGED <<fnVars, mkVars, envVars, walkVars, jobVars, out_kind, save_logs,
                   CAPTURE_LOGS_ALLOWED, cli_pc, exit_code, total_jobs, total_size,
                   jobs_completed, bytes_completed, pool, log_form, log_existed>>

\* `if save_logs: capture_logs(save_logs)`, copy.py:238-239 and
\* utils.py:138-170: console.save_text(path) writes the recorded lines and
\* clears the record, but only when capturing was allowed and the path has a
\* directory part that exists; otherwise an error is logged and nothing is
\* written
CallCaptureLogs ==
    /\ log_pc = "checked"
    /\ save_logs
    /\ IF CAPTURE_LOGS_ALLOWED /\ log_form = "dir"
           THEN /\ log_exists' = TRUE
                /\ log_saved' = <<log_buf>>
                /\ log_buf' = 0
           ELSE UNCHANGED <<log_exists, log_saved, log_buf>>
    /\ log_pc' = "captured"
    /\ UNCHANGED <<fnVars, mkVars, envVars, walkVars, jobVars, out_kind, save_logs,
                   CAPTURE_LOGS_ALLOWED, cli_pc, exit_code, total_jobs, total_size,
                   jobs_completed, bytes_completed, pool, log_form, log_existed>>

NextLogs == CallCheckCaptureLogs \/ LogRecord \/ CallCaptureLogs

SpecLogs == InitLogs /\ [][NextLogs]_vars

(***************************************************************************)
(* SpecSorted: sorted_dicts_are_equal (utils.py:642-667) applied to two    *)
(* dicts, in both argument orders.  A dict is a function from the keys it  *)
(* holds to Python values: ints and lists of ints.                         *)
(***************************************************************************)
PyInt(n) == [t |-> "int", v |-> n]
PyList(s) == [t |-> "list", v |-> s]

DictKeys == {"k1", "k2"}

\* the lists of at most MaxList items
Lists == UNION {[1..n -> 1..2] : n \in 0..MaxList}

DictValues == {PyInt(n) : n \in 1..2} \cup {PyList(s) : s \in Lists}

Dicts == UNION {[S -> DictValues] : S \in SUBSET DictKeys}

RECURSIVE Insert(_, _)
\* x put into the sorted sequence s
Insert(x, s) ==
    IF s = <<>> THEN <<x>>
    ELSE IF x <= Head(s) THEN <<x>> \o s
    ELSE <<Head(s)>> \o Insert(x, Tail(s))

RECURSIVE sorted(_)
\* sorted(list)
sorted(s) == IF s = <<>> THEN <<>> ELSE Insert(Head(s), sorted(Tail(s)))

\* the item appended to bools for one key of a (utils.py:658-665)
KeyBool(a, b, key) ==
    IF key \in DOMAIN b
        THEN IF a[key].t = "list" /\ b[key].t = "list"
                 THEN sorted(a[key].v) = sorted(b[key].v)
                 ELSE a[key] = b[key]
        ELSE FALSE

\* sorted_dicts_are_equal(a, b): all(bools), bools holding one item per key
\* of a
sorted_dicts_are_equal(a, b) == \A key \in DOMAIN a : KeyBool(a, b, key)

InitSorted ==
    /\ da \in Dicts
    /\ db \in Dicts
    /\ eq_ab = [tag |-> "none"]
    /\ eq_ba = [tag |-> "none"]
    /\ td_before = EmptyDict
    /\ td_doc = EmptyDict
    /\ td_ret = [tag |-> "none"]
    /\ root_kind = "dir"
    /\ src = [p \in Paths |-> Absent]
    /\ src0 = src
    /\ out_at = "apart"
    /\ order = <<P_a, P_sub, P_b, P_c>>
    /\ ftype = Ext_none
    /\ recursive = FALSE
    /\ gen = NoGen
    /\ yielded = <<>>
    /\ counted = [tag |-> "none"]
    /\ sized = [tag |-> "none"]
    /\ overwrite = FALSE
    /\ dst = [p \in Paths |-> Absent]
    /\ dst0 = dst
    /\ jobs = [p \in Paths |-> NoJob]
    /\ prev = jobs
    /\ run = 1
    /\ pool = NoPool
    /\ odirs = [i \in 1..2 |-> "absent"]
    /\ mk = [w \in Workers |-> NoMk]
    /\ LogIdle
    /\ CliIdle

\* r = sorted_dicts_are_equal(a, b)
CallSortedAB ==
    /\ eq_ab.tag = "none"
    /\ eq_ab' = BoolVal(sorted_dicts_are_equal(da, db))
    /\ UNCHANGED <<logVars, mkVars, envVars, walkVars, jobVars, cliVars,
                   da, db, eq_ba, td_before, td_doc, td_ret>>

\* r = sorted_dicts_are_equal(b, a)
CallSortedBA ==
    /\ eq_ba.tag = "none"
    /\ eq_ba' = BoolVal(sorted_dicts_are_equal(db, da))
    /\ UNCHANGED <<logVars, mkVars, envVars, walkVars, jobVars, cliVars,
                   da, db, eq_ab, td_before, td_doc, td_ret>>

NextSorted == CallSortedAB \/ CallSortedBA

SpecSorted == InitSorted /\ [][NextSorted]_vars

(***************************************************************************)
(* SpecTrim: trim_dict (utils.py:670-701) applied to a dict whose values   *)
(* are strings, ints, lists, tuples and dicts.  Strings are sequences of   *)
(* characters, " " being whitespace.  The function assigns into the dict   *)
(* and the lists it is given and returns that dict.                        *)
(***************************************************************************)
TStr(s) == [t |-> "str", v |-> s]
TList(s) == [t |-> "list", v |-> s]
TTuple(s) == [t |-> "tuple", v |-> s]
TDict(d) == [t |-> "dict", v |-> d]

\* the strings of at most MaxStr characters
Strings == UNION {[1..n -> {" ", "x"}] : n \in 0..MaxStr}

\* what a list or a tuple may hold: a string or a dict of one string
TrimItems == {TStr(s) : s \in Strings} \cup {TDict([k \in {"k1"} |-> TStr(s)]) : s \in Strings}

TrimValues ==
    {PyInt(1)} \cup TrimItems \cup {TList(<<i>>) : i \in TrimItems}
        \cup {TTuple(<<i>>) : i \in TrimItems}

TrimDicts == UNION {[S -> TrimValues] : S \in SUBSET DictKeys}

RECURSIVE lstrip(_)
lstrip(s) == IF s # <<>> /\ Head(s) = " " THEN lstrip(Tail(s)) ELSE s

RECURSIVE rstrip(_)
rstrip(s) ==
    IF s # <<>> /\ s[Len(s)] = " " THEN rstrip(SubSeq(s, 1, Len(s) - 1)) ELSE s

\* str.strip()
strip(s) == rstrip(lstrip(s))

RECURSIVE trim_content(_)
\* the content of the dict object doc when trim_dict(doc) returns: strings are
\* stripped, the strings and dicts held by a list are replaced in that list, a
\* tuple is replaced by a list, a dict is trimmed by the recursive call
trim_content(doc) ==
    LET item(x) == IF x.t = "str" THEN TStr(strip(x.v))
                   ELSE IF x.t = "dict" THEN TDict(trim_content(x.v))
                   ELSE x
        value(v) == IF v.t = "str" THEN TStr(strip(v.v))
                    ELSE IF v.t \in {"list", "tuple"}
                        THEN TList([i \in 1..Len(v.v) |-> item(v.v[i])])
                    ELSE IF v.t = "dict" THEN TDict(trim_content(v.v))
                    ELSE v
    IN  [k \in DOMAIN doc |-> value(doc[k])]

InitTrim ==
    /\ td_before \in TrimDicts
    /\ td_doc = td_before
    /\ td_ret = [tag |-> "none"]
    /\ da = EmptyDict
    /\ db = EmptyDict
    /\ eq_ab = [tag |-> "none"]
    /\ eq_ba = [tag |-> "none"]
    /\ root_kind = "dir"
    /\ src = [p \in Paths |-> Absent]
    /\ src0 = src
    /\ out_at = "apart"
    /\ order = <<P_a, P_sub, P_b, P_c>>
    /\ ftype = Ext_none
    /\ recursive = FALSE
    /\ gen = NoGen
    /\ yielded = <<>>
    /\ counted = [tag |-> "none"]
    /\ sized = [tag |-> "none"]
    /\ overwrite = FALSE
    /\ dst = [p \in Paths |-> Absent]
    /\ dst0 = dst
    /\ jobs = [p \in Paths |-> NoJob]
    /\ prev = jobs
    /\ run = 1
    /\ pool = NoPool
    /\ odirs = [i \in 1..2 |-> "absent"]
    /\ mk = [w \in Workers |-> NoMk]
    /\ LogIdle
    /\ CliIdle

\* r = trim_dict(doc): the assignments of utils.py:684-700 change doc itself,
\* and `return doc` hands back the same object
CallTrimDict ==
    /\ td_ret.tag = "none"
    /\ td_doc' = trim_content(td_doc)
    /\ td_ret' = [tag |-> "dict", is_doc |-> TRUE]
    /\ UNCHANGED <<logVars, mkVars, envVars, walkVars, jobVars, cliVars,
                   da, db, eq_ab, eq_ba, td_before>>

NextTrim == CallTrimDict

SpecTrim == InitTrim /\ [][NextTrim]_vars

(***************************************************************************)
(* SpecOverlap: one pass of the pool when OUTPUT_DIR is SOURCE_DIR itself  *)
(* or the directory out inside it, so that the jobs write into the tree    *)
(* walk_files is walking.  imap_unordered (copy.py:216-229) pulls the      *)
(* descriptors from the generator one at a time while the workers run the  *)
(* jobs of the earlier ones.  A directory is listed when the walk enters   *)
(* it (a directory this small is read by the first getdents call), so an   *)
(* entry made later in a directory that is being listed is not seen.       *)
(***************************************************************************)
N_out == <<"o", "u", "t">>

Q_out == <<N_out>>
Q_out_a == <<N_out, N_a_txt>>
Q_out_out == <<N_out, N_out>>
Q_out_out_a == <<N_out, N_out, N_a_txt>>

\* the paths below SOURCE_DIR: a.txt and out, two levels down
OvPaths == {P_a, Q_out, Q_out_a, Q_out_out, Q_out_out_a}

\* os.scandir lists the file before the directory, or after it
OvOrders ==
    {<<P_a, Q_out, Q_out_a, Q_out_out, Q_out_out_a>>,
     <<Q_out, P_a, Q_out_out, Q_out_a, Q_out_out_a>>}

\* the trees the run starts on: nothing below out/out yet
OvTrees ==
    {fs \in [OvPaths -> {Absent, Dir} \cup {File(c) : c \in Contents}] :
        /\ fs[P_a].kind \in {"absent", "file"}
        /\ fs[Q_out].kind \in {"absent", "dir"}
        /\ fs[Q_out_a].kind \in {"absent", "file"}
        /\ fs[Q_out].kind = "absent" => fs[Q_out_a] = Absent
        /\ fs[Q_out_out] = Absent
        /\ fs[Q_out_out_a] = Absent}

InitOverlap ==
    /\ root_kind = "dir"
    /\ out_at \in {"same", "inside"}
    /\ src \in OvTrees
    \* OUTPUT_DIR exists (click.Path(exists=True), copy.py:124)
    /\ out_at = "inside" => src[Q_out] = Dir
    /\ src0 = src
    /\ order \in OvOrders
    /\ ftype = Ext_none
    /\ recursive \in BOOLEAN
    /\ gen = NoGen
    /\ yielded = <<>>
    /\ counted = [tag |-> "none"]
    /\ sized = [tag |-> "none"]
    /\ overwrite \in BOOLEAN
    /\ dst = [p \in Paths |-> Absent]
    /\ dst0 = dst
    /\ jobs = [p \in OvPaths |-> NoJob]
    /\ prev = jobs
    /\ run = 1
    /\ pool = OpenPool
    /\ MkIdle
    /\ FnIdle
    /\ LogIdle
    /\ CliIdle

\* OUTPUT_DIR, as a path below SOURCE_DIR
OutputDir == IF out_at = "inside" THEN Q_out ELSE <<>>

\* copy.py:54: output_path = os.path.join(output_dir, *sub_path)
OvOutputPath(e) == OutputDir \o sub_path(EntryPath(e))

\* copy.py:64: os.path.join(output_path, basename)
OvTarget(e) == OutputDir \o full_output_path(EntryPath(e))

\* copy.py:216-229: imap_unordered takes the next descriptor from the
\* generator and queues _copy_safe on it
OvPull ==
    /\ gen.state \in {"created", "running"}
    /\ LET r == Pull(gen, ftype, recursive)
       IN  /\ gen' = r.gen
           /\ yielded' = yielded \o r.out
           /\ jobs' = IF r.out = <<>> THEN jobs
                      ELSE [jobs EXCEPT ![r.out[1]] = Queued]
    /\ UNCHANGED <<fnVars, logVars, mkVars, envVars, cliVars, counted, sized,
                   overwrite, dst, dst0, prev, run>>

\* lines 49-61 of _copy
OvMakedirs(e) ==
    /\ jobs[e].pc = "queued"
    /\ src' = makedirs(src, OvOutputPath(e))
    /\ jobs' = [jobs EXCEPT ![e].pc = "check"]
    /\ UNCHANGED <<fnVars, logVars, mkVars, walkVars, cliVars, root_kind, src0, out_at,
                   order, ftype, recursive, overwrite, dst, dst0, prev, run>>

\* lines 63-76 of _copy
OvCheck(e) ==
    /\ jobs[e].pc = "check"
    /\ IF write_decision(src, OvTarget(e), overwrite)
           THEN jobs' = [jobs EXCEPT ![e].pc = "read"]
           ELSE jobs' = [jobs EXCEPT ![e].pc = "done",
                                     ![e].outcome = "Skipped",
                                     ![e].ret = copy_safe_return(0)]
    /\ UNCHANGED <<fnVars, logVars, mkVars, envVars, walkVars, cliVars,
                   overwrite, dst, dst0, prev, run>>

\* lines 81-85 of _copy: the source is read to its end and closed
OvRead(e) ==
    /\ jobs[e].pc = "read"
    /\ \/ jobs' = [jobs EXCEPT ![e].pc = "open",
                                ![e].doc = read_source(e),
                                ![e].size = Len(src[e].data)]
       \/ jobs' = [jobs EXCEPT ![e].pc = "done",
                                ![e].outcome = "Failed",
                                ![e].errors = @ + 1,
                                ![e].ret = copy_safe_return(0)]
    /\ UNCHANGED <<fnVars, logVars, mkVars, envVars, walkVars, cliVars,
                   overwrite, dst, dst0, prev, run>>

\* a _copy that opens the destination for writing before it reads the source
MutOvOpen(e) ==
    /\ jobs[e].pc = "open"
    /\ LET out == OvTarget(e)
       IN  IF (Len(out) > 1 /\ src[Parent(out)].kind # "dir") \/ src[out].kind = "dir"
               THEN /\ jobs' = [jobs EXCEPT ![e].pc = "done",
                                            ![e].outcome = "Failed",
                                            ![e].errors = @ + 1,
                                            ![e].ret = copy_safe_return(0)]
                    /\ src' = src
               ELSE /\ src' = [src EXCEPT ![out] = File(<<>>)]
                    /\ jobs' = [jobs EXCEPT ![e].pc = "write",
                                            ![e].doc = src'[e].data,
                                            ![e].size = Len(src'[e].data)]
    /\ UNCHANGED <<fnVars, logVars, mkVars, walkVars, cliVars, root_kind, src0, out_at,
                   order, ftype, recursive, overwrite, dst, dst0, prev, run>>

\* line 87 of _copy: open(full_output_path, "wb") creates or truncates the
\* file, which here is a file of the tree being walked
OvOpen(e) ==
    /\ jobs[e].pc = "open"
    /\ LET out == OvTarget(e)
       IN  IF (Len(out) > 1 /\ src[Parent(out)].kind # "dir") \/ src[out].kind = "dir"
               THEN /\ jobs' = [jobs EXCEPT ![e].pc = "done",
                                            ![e].outcome = "Failed",
                                            ![e].errors = @ + 1,
                                            ![e].ret = copy_safe_return(0)]
                    /\ src' = src
               ELSE /\ jobs' = [jobs EXCEPT ![e].pc = "write"]
                    /\ src' = [src EXCEPT ![out] = File(<<>>)]
    /\ UNCHANGED <<fnVars, logVars, mkVars, walkVars, cliVars, root_kind, src0, out_at,
                   order, ftype, recursive, overwrite, dst, dst0, prev, run>>

\* lines 88-92 of _copy: the content is written, or the write raises part-way
OvWrite(e) ==
    /\ jobs[e].pc = "write"
    /\ LET out == OvTarget(e)
           doc == jobs[e].doc
       IN  \/ /\ src' = [src EXCEPT ![out] = File(doc)]
              /\ jobs' = [jobs EXCEPT ![e].pc = "done",
                                      ![e].outcome = "Written",
                                      ![e].wrote = Len(doc),
                                      ![e].ret = copy_safe_return(jobs[e].size)]
           \/ \E n \in 0..(Len(doc) - 1) :
                  /\ src' = [src EXCEPT ![out] = File(SubSeq(doc, 1, n))]
                  /\ jobs' = [jobs EXCEPT ![e].pc = "done",
                                          ![e].outcome = "Failed",
                                          ![e].wrote = n,
                                          ![e].errors = @ + 1,
                                          ![e].ret = copy_safe_return(0)]
    /\ UNCHANGED <<fnVars, logVars, mkVars, walkVars, cliVars, root_kind, src0, out_at,
                   order, ftype, recursive, overwrite, dst, dst0, prev, run>>

NextOverlap ==
    \/ CallWalkFiles
    \/ OvPull
    \/ \E e \in OvPaths : OvMakedirs(e)
    \/ \E e \in OvPaths : OvCheck(e)
    \/ \E e \in OvPaths : OvRead(e)
    \/ \E e \in OvPaths : OvOpen(e)
    \/ \E e \in OvPaths : OvWrite(e)

SpecOverlap == InitOverlap /\ [][NextOverlap]_vars

(***************************************************************************)
(* Properties.                                                             *)
(***************************************************************************)
\* where the job of descriptor e writes, below OUTPUT_DIR
OutOf(e) == full_output_path(EntryPath(e))

RECURSIVE SumSizes(_)
SumSizes(es) ==
    IF es = <<>> THEN 0 ELSE Len(src[Head(es)].data) + SumSizes(Tail(es))

\* a run of cli() that passed the argument checks has ended
RunOver == cli_pc \in {"crashed", "done"}

\* the file a job that does not fail leaves at its output path
Expected(e) ==
    IF write_decision(dst0, OutOf(e), overwrite)
        THEN File(src[e].data)
        ELSE dst0[OutOf(e)]

\* _copy_safe on its own: a job logs one error exactly when it fails, and a job
\* that does not fail leaves the expected file whatever the other jobs do
CopySafe_Isolation ==
    \A e \in Paths :
        /\ jobs[e].errors = (IF jobs[e].outcome = "Failed" THEN 1 ELSE 0)
        /\ jobs[e].outcome \in {"Written", "Skipped"} => dst[OutOf(e)] = Expected(e)

\* _copy on its own: a first pass in which no job fails, with overwrite
\* enabled and into an empty destination, leaves exactly the matching files
Jobs_DestinationSet ==
    (/\ run = 1
     /\ AllDone
     /\ overwrite
     /\ dst0 = [p \in Paths |-> Absent]
     /\ \A e \in Paths : jobs[e].outcome # "Failed") =>
        {p \in Paths : dst[p].kind = "file"} = {OutOf(e) : e \in Range(Descriptors)}

\* C1: per-job fault isolation.  When a run has ended, the pool was not
\* aborted, every descriptor's job was executed, every job that raised was
\* reported exactly once and every other job left the file it leaves when no
\* job fails.
C1_FaultIsolation ==
    RunOver =>
        /\ cli_pc = "done"
        /\ \A e \in Range(Descriptors) :
              /\ jobs[e].pc = "done"
              /\ jobs[e].errors = (IF jobs[e].outcome = "Failed" THEN 1 ELSE 0)
              /\ jobs[e].outcome # "Failed" => dst[OutOf(e)] = Expected(e)

\* C2: when a run over a static tree has ended, jobs_completed is the number
\* of source files that match the extension/recursion filter.
C2_JobsCompleted == RunOver => jobs_completed = Len(Descriptors)

\* C3: the amount by which the result of a finished job advances
\* bytes_completed is the number of bytes the job wrote, 0 for a skipped or
\* failed job.
C3_BytesReported ==
    \A e \in Paths :
        jobs[e].pc = "done" =>
            advance_of(jobs[e].ret) =
                (IF jobs[e].outcome = "Written" THEN jobs[e].wrote ELSE 0)

\* C4: from dispatch on, the totals are those the counting walk computed and
\* jobs_completed <= jobs_total and bytes_completed <= bytes_total.
C4_ProgressBounds ==
    cli_pc \notin {"args", "usage_error", "configure", "spool"} =>
        /\ total_jobs = IntVal(Len(Descriptors))
        /\ total_size = IntVal(SumSizes(Descriptors))
        /\ jobs_completed <= total_jobs.val
        /\ bytes_completed <= total_size.val

\* C5: when a run with overwrite enabled into an empty destination has ended,
\* the files below OUTPUT_DIR are exactly OUTPUT_DIR/rel/name for the source
\* files SOURCE_DIR/rel/name that match the filter.
C5_DestinationSet ==
    (RunOver /\ overwrite /\ dst0 = [p \in Paths |-> Absent]) =>
        {p \in Paths : dst[p].kind = "file"} = {OutOf(e) : e \in Range(Descriptors)}

\* C6 as stated: in a second pass with overwrite disabled every job resolves
\* to Skipped and no destination file is changed.
C6_Original ==
    (run >= 2 /\ ~overwrite) =>
        \A e \in Range(Descriptors) :
            /\ jobs[e].pc = "done" => jobs[e].outcome = "Skipped"
            /\ dst[OutOf(e)] = dst0[OutOf(e)]

\* C6 as amended: in a second pass with overwrite disabled every job that did
\* not fail in the first pass resolves to Skipped, never opens its output,
\* leaves the destination file as it was and reports 0 bytes.
C6_SecondRunSkips ==
    (run >= 2 /\ ~overwrite) =>
        \A e \in Range(Descriptors) :
            prev[e].outcome \in {"Written", "Skipped"} =>
                /\ jobs[e].pc \in {"queued", "check", "done"}
                /\ jobs[e].pc = "done" =>
                       (jobs[e].outcome = "Skipped" /\ jobs[e].size = 0 /\ jobs[e].wrote = 0)
                /\ dst[OutOf(e)] = dst0[OutOf(e)]

C6_Witness ==
    /\ run = 2
    /\ ~overwrite
    /\ \E e \in Paths :
          /\ prev[e].outcome = "Written"
          /\ jobs[e].outcome = "Skipped"
          /\ dst[OutOf(e)] = File(src[e].data)

\* C7: round trip.  Whenever a job has resolved to Written, the destination
\* file holds exactly the bytes of its source file, whatever the other
\* workers are doing.
C7_RoundTrip ==
    \A e \in Paths :
        jobs[e].outcome = "Written" => dst[OutOf(e)] = File(src[e].data)

C7_Witness ==
    \E e, f \in Paths :
        /\ e # f
        /\ jobs[e].outcome = "Written"
        /\ Len(src[e].data) = MaxLen
        /\ dst0[OutOf(e)] = File(OldContent)
        /\ jobs[f].pc = "write"

\* C8: with overwrite disabled, every regular file that was below OUTPUT_DIR
\* when the run started still has the content it had then.
C8_ExistingFilesKept ==
    ~overwrite =>
        \A p \in Paths : dst0[p].kind = "file" => dst[p] = dst0[p]

C8_Witness ==
    /\ ~overwrite
    /\ \E e, f \in Paths :
          /\ jobs[e].outcome = "Skipped"
          /\ dst0[OutOf(e)] = File(OldContent)
          /\ src[e].data # OldContent
          /\ jobs[f].outcome = "Written"

\* C9 as stated: on a root that is no directory the call that creates the
\* sequence fails, with NotADirectoryError.
C9_Original ==
    (root_kind # "dir" /\ gen.state # "none") =>
        (gen.state = "raised" /\ gen.exc = "NotADirectoryError")

\* C9 as amended: on a root that is no directory the call that creates the
\* sequence succeeds, the first pull fails with AssertionError, and no
\* descriptor is ever produced.
C9_FailsAtFirstPull ==
    root_kind # "dir" =>
        /\ yielded = <<>>
        /\ gen.state \in {"none", "created", "raised"}
        /\ gen.exc = (IF gen.state = "raised" THEN "AssertionError" ELSE "none")

C9_Witness == root_kind = "absent" /\ gen.state = "raised"

\* C10: the count count_dir_files returns is the number of descriptors
\* walk_files yields for the same directory, filter and recursive flag.
C10_CountMatchesWalk ==
    (counted.tag = "int" /\ gen.state = "done") => counted.val = Len(yielded)

C10_Witness ==
    /\ counted = IntVal(2)
    /\ gen.state = "done"
    /\ yielded \in {<<P_a, P_b>>, <<P_b, P_a>>}
    /\ ftype = Ext_txt
    /\ recursive
    /\ src[P_c].kind = "file"

\* count_dir_files_and_size on its own: when it returns, it returns the count
\* and the total size of the files walk_files yields; it raises TypeError
\* exactly when recursive is set and the root holds a subdirectory
CountDirFilesAndSize_Flat ==
    /\ (sized.tag = "tuple" /\ gen.state = "done") =>
           sized = PairVal(Len(yielded), SumSizes(yielded))
    /\ (sized.tag = "raise" /\ root_kind = "dir") =>
           (sized.exc = "TypeError" /\ recursive /\ is_dir(P_sub))
    /\ (sized.tag = "tuple" /\ recursive) => ~is_dir(P_sub)

\* C11: the counting operation cli() calls at copy.py:196 to size the progress
\* bars returns the pair of the number and the total byte size of the files
\* walk_files yields for the same arguments.
C11_CountAndSize ==
    (root_kind = "dir" /\ counted.tag # "none" /\ gen.state = "done") =>
        counted = PairVal(Len(yielded), SumSizes(yielded))

\* the jobs that were being executed when the interrupt arrived
InFlight(js) == {e \in Paths : js[e].pc \in {"check", "read", "open", "write"}}

\* C12: cancellation.  After an interrupt no job that was still queued is
\* started; and once control has left the pool, the pool has been joined and
\* every job that was in flight at the interrupt has finished or failed.
C12_Cancellation ==
    pool.interrupted =>
        /\ \A e \in Paths : pool.at_interrupt[e].pc = "queued" => jobs[e].pc = "queued"
        /\ pool.state # "open" =>
              /\ pool.state = "joined"
              /\ \A e \in InFlight(pool.at_interrupt) :
                    jobs[e].outcome \in {"Written", "Skipped", "Failed"}

\* check_capture_logs has returned after the user declined the prompt: -l is
\* given, -f is not, and the file at the -l path is still there (an allowed
\* overwrite removes it, utils.py:194-196)
Declined ==
    /\ save_logs
    /\ log_exists
    /\ ~overwrite
    /\ cli_pc \notin {"args", "usage_error", "configure"}

Jobs_NeverStuck ==
    \A e \in Paths :
        jobs[e].pc \in {"queued", "check", "read", "open", "write"} =>
            ENABLED (JobMakedirs(e) \/ JobCheck(e) \/ JobRead(e) \/ JobOpen(e) \/ JobWrite(e))

\* C14: termination.  A run that passed the argument checks and has ended has
\* collected the result of every job, has closed and joined the pool, has
\* reached "Job pool complete." and exits with the status of a run without
\* failures, 0.
C14_RunCompletes ==
    RunOver =>
        /\ pool.state = "joined"
        /\ jobs_completed = Len(Descriptors)
        /\ cli_pc = "done"
        /\ exit_code \in {NoneVal, IntVal(0)}

\* C15: when SOURCE_DIR or OUTPUT_DIR is missing or is no directory, cli() is
\* never entered: the run is at the argument check or has ended there with a
\* usage error, nothing was configured, counted, enumerated or dispatched, and
\* nothing below OUTPUT_DIR or at the log path has changed.
C15_InvalidRootAborts ==
    (root_kind # "dir" \/ out_kind # "dir") =>
        /\ cli_pc \in {"args", "usage_error"}
        /\ exit_code = (IF cli_pc = "usage_error" THEN IntVal(2) ELSE NoneVal)
        /\ ~CAPTURE_LOGS_ALLOWED
        /\ total_jobs = Unbound /\ total_size = Unbound
        /\ gen = NoGen /\ yielded = <<>>
        /\ pool = NoPool
        /\ \A e \in Paths : jobs[e] = NoJob
        /\ dst = dst0

C15_Witness ==
    /\ root_kind = "dir"
    /\ \E p \in Paths : src[p].kind = "file"
    /\ out_kind = "file"
    /\ save_logs
    /\ cli_pc = "usage_error"
    /\ exit_code = IntVal(2)

\* C16: the write decision of a job that is past its check, by what was at its
\* output path when the pass started: an existing directory, or an existing
\* regular file with overwrite disabled, is skipped; an existing regular file
\* with overwrite enabled, or nothing, goes on to read and write; and a
\* skipped job has read nothing, written nothing and left the path as it was.
C16_WriteDecision ==
    \A e \in Paths :
        jobs[e].pc \in {"read", "open", "write", "done"} =>
            LET before == dst0[OutOf(e)].kind
                skipped == jobs[e].pc = "done" /\ jobs[e].outcome = "Skipped"
            IN  /\ before = "dir" => skipped
                /\ (before = "file" /\ ~overwrite) => skipped
                /\ (before = "file" /\ overwrite) => ~skipped
                /\ before = "absent" => ~skipped
                /\ skipped =>
                      /\ jobs[e].doc = <<>> /\ jobs[e].size = 0 /\ jobs[e].wrote = 0
                      /\ dst[OutOf(e)] = dst0[OutOf(e)]

C16_Witness ==
    /\ run = 2
    /\ overwrite
    /\ prev[P_b].outcome = "Skipped"
    /\ dst0[P_a].kind = "dir" /\ jobs[P_a].outcome = "Skipped"
    /\ dst0[P_b] = File(OldContent) /\ jobs[P_b].outcome = "Written"
    /\ dst0[P_c].kind = "absent" /\ jobs[P_c].outcome = "Written"

\* C17 as stated: after any job, failed ones included, the destination file is
\* as it was before the job or holds the full content of the source.
C17_Original ==
    \A e \in Paths :
        jobs[e].pc = "done" =>
            (dst[OutOf(e)] = dst0[OutOf(e)] \/ dst[OutOf(e)] = File(src[e].data))

\* C17 as amended: the destination file is untouched until the job opens it,
\* so a skipped job and a job that fails while reading the source leave it as
\* it was; opening it truncates it; a job that resolves to Written leaves the
\* full content; a job that fails after its read leaves the file as it was
\* (the open failed) or holding the proper prefix of the source content that
\* was written, the earlier content being lost.
C17_PartialOnlyAfterOpen ==
    \A e \in Paths :
        LET out == OutOf(e)
            j == jobs[e]
        IN  /\ j.pc \in {"queued", "check", "read", "open"} => dst[out] = dst0[out]
            /\ j.pc = "write" => dst[out] = File(<<>>)
            /\ j.outcome = "Skipped" => dst[out] = dst0[out]
            /\ j.outcome = "Written" => dst[out] = File(src[e].data)
            /\ j.outcome = "Failed" =>
                  \/ dst[out] = dst0[out]
                  \/ /\ j.wrote < Len(src[e].data)
                     /\ j.doc = src[e].data
                     /\ dst[out] = File(SubSeq(src[e].data, 1, j.wrote))

C17_Witness ==
    /\ jobs[P_b].outcome = "Failed"
    /\ Len(src[P_b].data) = MaxLen
    /\ jobs[P_b].wrote = 1
    /\ dst0[P_b] = File(OldContent)
    /\ dst[P_b] = File(<<1>>)

\* the regular files under the root that the filter and the recursive flag
\* select: the file name has ftype as a suffix (any name when ftype is empty),
\* and the file lies directly in the root unless recursive is set
Qualifying ==
    {p \in Paths :
        /\ src[p].kind = "file"
        /\ \E k \in 0..Len(Basename(p)) :
              SubSeq(Basename(p), k + 1, Len(Basename(p))) = ftype
        /\ Len(p) = 1 \/ recursive}

\* C18: walk_files yields only qualifying regular files, never a directory,
\* none of them twice, and by the time it is exhausted all of them.
C18_WalkYieldsExactly ==
    /\ Range(yielded) \subseteq Qualifying
    /\ \A i, j \in 1..Len(yielded) : yielded[i] = yielded[j] => i = j
    /\ gen.state = "done" => Range(yielded) = Qualifying

C18_Witness ==
    /\ gen.state = "done"
    /\ ftype = Ext_txt
    /\ recursive
    /\ order[1] = P_sub
    /\ yielded = <<P_b, P_a>>
    /\ src[P_c].kind = "file"

\* without -r the walk stays in the root, whatever the subdirectory holds
C18_WitnessFlat ==
    /\ gen.state = "done"
    /\ ~recursive
    /\ ftype = Ext_none
    /\ yielded = <<P_a>>
    /\ src[P_b].kind = "file"

\* C19: when a run has ended, every descriptor walk_files yields was handed
\* to a worker and processed, once, and nothing else was processed.
C19_ProcessedOnce ==
    RunOver =>
        \A e \in Paths :
            IF e \in Range(Descriptors)
                THEN /\ jobs[e].pc = "done"
                     /\ jobs[e].outcome \in {"Written", "Skipped", "Failed"}
                ELSE jobs[e] = NoJob

\* C20: workers racing to make a shared output directory.  A job fails in
\* os.makedirs only when a regular file lies at d1 below OUTPUT_DIR, never
\* because another worker made d1 or d1/d2 first; and when no regular file is
\* in the way, every segment of the output directory of a job that is past
\* os.makedirs is a directory.
C20_MakedirsRace ==
    \A w \in Workers :
        /\ mk[w].pc = "failed" =>
              (mk[w].depth = 2 /\ odirs[1] = "file" /\ mk[w].exc = "NotADirectoryError")
        /\ (mk[w].pc = "ok" /\ \A i \in 1..mk[w].depth : odirs[i] # "file") =>
              \A i \in 1..mk[w].depth : odirs[i] = "dir"

\* two jobs with the output directory d1/d2: one lost the race for d1 inside
\* os.makedirs, the other lost the race for d1/d2, and both went on
C20_Witness ==
    /\ odirs = [i \in 1..2 |-> "dir"]
    /\ \E v, w \in Workers :
          /\ v # w
          /\ mk[v].depth = 2 /\ mk[w].depth = 2
          /\ mk[v].pc = "ok" /\ mk[w].pc = "ok"
          /\ mk[v].head_exc = "FileExistsError" /\ mk[v].exc = "none"
          /\ mk[w].head_exc = "none" /\ mk[w].exc = "FileExistsError"

\* a job has been started while the generator still has descriptors to yield
Overlap ==
    /\ gen.state \in {"created", "running"}
    /\ \E e \in Paths : jobs[e].pc \notin {"none", "queued"}

\* no run of cli() reaches a state in which enumeration and copying overlap:
\* neither the generator nor a job is ever started
Cli_NeverOverlaps == ~Overlap /\ gen = NoGen /\ \A e \in Paths : jobs[e] = NoJob

\* C21: enumeration and copying are pipelined.  Stated for a run that has
\* ended: with two or more files to copy, the run has created the Enumerator
\* and handed a descriptor to a worker (without which no state of the run can
\* have a job started before the Enumerator is exhausted).
C21_Pipelined ==
    (RunOver /\ Len(Descriptors) >= 2) =>
        (gen.state # "none" /\ \E e \in Paths : jobs[e].pc # "none")

\* the user declined the overwrite prompt of check_capture_logs: -l is given,
\* a file was at the path, -f is not set, and the call returned without
\* allowing the capture
DeclinedLog ==
    /\ save_logs
    /\ log_existed
    /\ ~overwrite
    /\ log_pc \in {"checked", "captured"}
    /\ ~CAPTURE_LOGS_ALLOWED

\* C22: after a declined overwrite the log file is still there and nothing
\* was written to it, also once capture_logs has been called; capture_logs
\* writes only when check_capture_logs has set CAPTURE_LOGS_ALLOWED.
C22_DeclinedLogKept ==
    /\ DeclinedLog => (log_exists /\ log_saved = <<>>)
    /\ log_saved # <<>> => CAPTURE_LOGS_ALLOWED

C22_Witness ==
    /\ DeclinedLog
    /\ log_form = "dir"
    /\ log_buf = MaxLines
    /\ log_pc = "captured"
    /\ log_exists

\* how often x occurs in the list s
Occurrences(s, x) == Cardinality({i \in 1..Len(s) : s[i] = x})

\* two Python values are equal discounting list order
SameValue(x, y) ==
    IF x.t = "list" /\ y.t = "list"
        THEN /\ Len(x.v) = Len(y.v)
             /\ \A n \in 1..2 : Occurrences(x.v, n) = Occurrences(y.v, n)
        ELSE x = y

\* two dicts are equivalent discounting list order: the same keys, and for
\* every key the same value
Equivalent(a, b) ==
    /\ DOMAIN a = DOMAIN b
    /\ \A key \in DOMAIN a : SameValue(a[key], b[key])

\* sorted_dicts_are_equal on its own: it decides whether every key of a is in
\* b with the same value, and says nothing about the other keys of b
SortedDicts_Subset ==
    eq_ab.tag = "bool" =>
        eq_ab.val = (/\ DOMAIN da \subseteq DOMAIN db
                     /\ \A key \in DOMAIN da : SameValue(da[key], db[key]))

\* C23: sorted_dicts_are_equal returns True exactly when the two dicts have
\* the same keys and equal values per key, lists compared as sorted, and it
\* returns the same for (a, b) and (b, a).
C23_DecidesEquivalence ==
    /\ eq_ab.tag = "bool" => eq_ab.val = Equivalent(da, db)
    /\ (eq_ab.tag = "bool" /\ eq_ba.tag = "bool") => eq_ab = eq_ba

\* trim_dict on its own: it returns the dict it was given, and no string
\* value of that dict has whitespace at either end afterwards
TrimDict_InPlace ==
    td_ret.tag = "dict" =>
        /\ td_ret.is_doc
        /\ \A k \in DOMAIN td_doc :
              td_doc[k].t = "str" =>
                  (td_doc[k].v = <<>> \/
                   (Head(td_doc[k].v) # " " /\ td_doc[k].v[Len(td_doc[k].v)] # " "))

\* C24: trim_dict returns a clone: after the call the dict passed in, with the
\* lists and dicts nested in it, is as it was before, and the value returned
\* is another object.
C24_ReturnsClone ==
    td_ret.tag = "dict" => (td_doc = td_before /\ ~td_ret.is_doc)

\* check_capture_logs removed a file that was at the -l path (the overwrite
\* was allowed by -f or by the answer to the prompt) and the run has gone on
\* to its capture_logs call
RemovedLogRunOver ==
    /\ save_logs
    /\ log_existed
    /\ CAPTURE_LOGS_ALLOWED
    /\ log_pc = "captured"

\* C26: a log file removed by check_capture_logs is replaced: once the run
\* has called capture_logs, a log file written by capture_logs is at the
\* path, whatever the form of the path (bare filename included).
C26_RemovedLogReplaced ==
    RemovedLogRunOver => (log_exists /\ log_saved # <<>>)

\* the pass of SpecOverlap is over: the generator is exhausted and every job
\* it queued has ended
OvOver ==
    /\ gen.state = "done"
    /\ \A e \in DOMAIN jobs : jobs[e].pc \in {"none", "done"}

\* the files walk_files finds on the tree the run started on
OvInitialFiles ==
    {e \in DOMAIN src0 : src0[e].kind = "file" /\ (recursive \/ Len(e) = 1)}

\* C25: no file written by the run becomes a job of the same run.  Every job
\* is for a file that was there when the run started, and once the pass is
\* over the jobs processed are exactly those files.
C25_NoJobForOwnOutput ==
    (out_at \in {"same", "inside"}) =>
        /\ \A e \in DOMAIN jobs : jobs[e].pc # "none" => e \in OvInitialFiles
        /\ OvOver => \A e \in OvInitialFiles : jobs[e].pc = "done"

\* C27 as stated: with OUTPUT_DIR the same directory as SOURCE_DIR, after any
\* job the file holds what it held before the job, with and without -f.
C27_Original ==
    out_at = "same" =>
        \A e \in DOMAIN jobs : jobs[e].pc = "done" => src[e] = src0[e]

\* C27 as amended: the job's destination is its own source file.  Without -f
\* the job is skipped and the file untouched; with -f the whole content is
\* read before the file is opened for writing, so a job that resolves to
\* Written leaves the content it found, and the file is untouched until the
\* open; the open truncates it, and a job that fails in its write leaves only
\* the proper prefix that was written.
C27_SameFileRewritten ==
    out_at = "same" =>
        \A e \in DOMAIN jobs :
            LET j == jobs[e]
            IN  /\ j.pc \in {"queued", "check", "read", "open"} => src[e] = src0[e]
                /\ j.pc = "open" => j.doc = src0[e].data
                /\ j.pc = "write" => src[e] = File(<<>>)
                /\ (j.pc = "done" /\ ~overwrite) =>
                      (j.outcome = "Skipped" /\ src[e] = src0[e])
                /\ (j.pc = "done" /\ overwrite) => j.outcome # "Skipped"
                /\ j.outcome = "Written" => src[e] = src0[e]
                /\ j.outcome = "Failed" =>
                      \/ src[e] = src0[e]
                      \/ /\ j.wrote < Len(src0[e].data)
                         /\ src[e] = File(SubSeq(src0[e].data, 1, j.wrote))

C27_Witness ==
    /\ out_at = "same"
    /\ overwrite
    /\ src0[P_a] = File([i \in 1..MaxLen |-> i])
    /\ jobs[P_a].outcome = "Written"
    /\ jobs[P_a].wrote = MaxLen
    /\ src[P_a] = src0[P_a]
    /\ jobs[Q_out_a].outcome = "Failed"
    /\ src[Q_out_a] # src0[Q_out_a]

====
